---- MODULE Spec2Model ----
(***************************************************************************)
(* PYSpeechLib: AudioFile (framing, windowing) and SpeechFeatures (mfcc).  *)
(*                                                                         *)
(* Python values are modelled as follows.  An optional value is a sequence  *)
(* of length 0 (Python None) or 1 (the value).  A time in seconds is an     *)
(* integer number of ticks, one tick being 1/(Rate*TicksPerSample) second,  *)
(* so that seconds*rate is ticks/TicksPerSample samples and int() of it is  *)
(* the integer quotient.  A numpy 2-D array is a record [cols, rows] whose  *)
(* rows are sequences of length cols; sample i of the file has the value    *)
(* i+1, so a sample is never confused with zero padding.                    *)
(***************************************************************************)
EXTENDS Integers, Sequences, FiniteSets, TLC

VARIABLES af, sf, last, ret, computed, resolved

vars == <<af, sf, last, ret, computed, resolved>>

\* ------------------------------------------------------------------ bounds
NSamples == 16
MaxN == 7
MaxShiftPT == 2
MaxWidthPT == 4
MaxReframePT == 4
MaxOrder == 2
MaxFftLen == 4
MaxBand == 1
MaxBeta == 2
MaxWindowPT == 2
MaxBin == 4
MaxBankOrder == 2
MaxTrapPT == 8
TicksPerSample == 3

\* ------------------------------------------------------- program constants
Rate == 400

None == <<>>
Some(v) == <<v>>
Val(o) == o[1]

\* Only({F(x) : x \in {e}}) is F(e) with e computed once
Only(s) == CHOOSE x \in s : TRUE

Min(a, b) == IF a <= b THEN a ELSE b
Max(a, b) == IF a >= b THEN a ELSE b

\* 0.005 s and 0.025 s in ticks
DefaultShiftT == (5 * Rate * TicksPerSample) \div 1000
DefaultWidthT == (25 * Rate * TicksPerSample) \div 1000

\* self.data after open(): a column of n samples
Samples(n) == [i \in 1..n |-> i]

\* int(seconds * rate)
ToPoints(t) == t \div TicksPerSample

\* not (seconds * rate).is_integer()
NotInteger(t) == t % TicksPerSample # 0

\* ------------------------------------------------------------ numpy helpers
\* data[a:b] of a 1-D sequence, 0-based, clipped as Python clips (0 <= a)
Slice(d, a, b) ==
  LET hi == Min(b, Len(d)) IN
  IF hi <= a THEN <<>> ELSE SubSeq(d, a + 1, hi)

ZeroRow(w) == [j \in 1..w |-> 0]

\* row[lo:lo+n] = src : numpy copies equal lengths and broadcasts one value;
\* any other length raises and leaves the row as it was
AssignOk(n, src) == Len(src) = n \/ Len(src) = 1

Assign(row, lo, n, src) ==
  [j \in 1..Len(row) |->
     IF j > lo /\ j <= lo + n /\ AssignOk(n, src)
       THEN (IF Len(src) = n THEN src[j - lo] ELSE src[1])
       ELSE row[j]]

\* range(0, stop, step) for step > 0, as the sequence of its values
RangeLen(stop, step) == IF stop <= 0 THEN 0 ELSE (stop + step - 1) \div step
Range(stop, step) == [i \in 1..RangeLen(stop, step) |-> (i - 1) * step]

\* ------------------------------------------------------- AudioFile.frame
\* one row of the padded, centred branch: [ok, row]
CentredFrame(data, s, W) ==
  LET N == Len(data)
      halfwidth == W \div 2
      maxS == N - halfwidth
      minS == halfwidth
      zero == ZeroRow(W)
  IN IF s > minS /\ s < maxS
       THEN LET src == Slice(data, s - halfwidth, s + halfwidth)
            IN [ok |-> AssignOk(W, src), row |-> Assign(zero, 0, W, src)]
       ELSE IF s < W
         THEN LET src == Slice(data, 0, s + halfwidth)
                  k == Len(src)
                  \* row[-k:] : the last k places, the whole row when k = 0
                  lo == IF k = 0 THEN 0 ELSE Max(W - k, 0)
                  n == W - lo
              IN [ok |-> AssignOk(n, src), row |-> Assign(zero, lo, n, src)]
         ELSE LET src == Slice(data, s - halfwidth, N)
                  n == Min(Len(src), W)
              IN [ok |-> AssignOk(n, src), row |-> Assign(zero, 0, n, src)]

\* one row of the padded, not centred branch
PaddedFrame(data, s, W) ==
  LET src == Slice(data, s, s + W)
      n == Min(Len(src), W)
  IN [ok |-> AssignOk(n, src), row |-> Assign(ZeroRow(W), 0, n, src)]

\* one row of the unpadded branch
UnpaddedFrame(data, s, W) ==
  LET src == Slice(data, s, s + W)
  IN [ok |-> AssignOk(W, src), row |-> Assign(ZeroRow(W), 0, W, src)]

\* startInds of the padded and of the unpadded branch (shift > 0)
PaddedStartsShort(n, step) == Range(n - 1, step)
PaddedStarts(n, step) == Range(n, step)
UnpaddedStarts(n, width, step) == Range(n - width, step)

FrameRow(data, s, W, pad, cen) ==
  IF pad THEN (IF cen THEN CentredFrame(data, s, W) ELSE PaddedFrame(data, s, W))
         ELSE UnpaddedFrame(data, s, W)

\* The framing loop.  raised = "range": range() refuses a zero step before
\* _framedData is assigned; raised = "loop": a row assignment fails, the rows
\* before it are filled and the others are still zero.
FrameData(data, S, W, pad, cen) ==
  IF S = 0 THEN [raised |-> "range", m |-> [cols |-> W, rows |-> <<>>]]
  ELSE
    LET startInds == IF pad THEN PaddedStarts(Len(data), S)
                            ELSE UnpaddedStarts(Len(data), W, S)
        n == Len(startInds)
        Filled(frames) ==
          LET bad == {i \in 1..n : ~frames[i].ok}
              firstBad == IF bad = {} THEN n + 1
                          ELSE CHOOSE i \in bad : \A j \in bad : i <= j
          IN [raised |-> IF bad = {} THEN "no" ELSE "loop",
              m |-> [cols |-> W,
                     rows |-> [i \in 1..n |->
                                IF i < firstBad THEN frames[i].row ELSE ZeroRow(W)]]]
    IN Only({Filled(frames) : frames \in
               {[i \in 1..n |-> FrameRow(data, startInds[i], W, pad, cen)] \o <<>>}})

\* lines 251-260: the two tests that return the stored frames
FrameHitOmitted(self, frameshift, framewidth) ==
  /\ frameshift = None /\ framewidth = None
  /\ ~(self.frameshift = None /\ self.framewidth = None)

FrameHitMatch(self, frameshift, framewidth, pad, centred) ==
  /\ frameshift = self.frameshift /\ framewidth = self.framewidth
  /\ (pad = self._framedPadded \/ pad = None)
  /\ (self._framedPadded # Some(TRUE)
        \/ centred = self._framedCentred \/ centred = None)
  /\ ~(self.frameshift = None /\ self.framewidth = None)

\* lines 262-284: an unset argument keeps the stored value or takes the default
KeepOr(arg, stored, default) ==
  IF arg = None THEN (IF stored = None THEN Some(default) ELSE stored) ELSE arg

\* AudioFile.frame: the object after the call, whether it returned, what it
\* returned and which computations it ran
frame(self, frameshift, framewidth, pad, centred) ==
  IF \/ FrameHitOmitted(self, frameshift, framewidth)
     \/ FrameHitMatch(self, frameshift, framewidth, pad, centred)
  THEN [self |-> self, ok |-> TRUE, val |-> self._framedData, computed |-> {},
        warned |-> FALSE]
  ELSE
    LET fs == KeepOr(frameshift, self.frameshift, DefaultShiftT)
        fw == KeepOr(framewidth, self.framewidth, DefaultWidthT)
        fp == KeepOr(pad, self._framedPadded, TRUE)
        fc == KeepOr(centred, self._framedCentred, TRUE)
        spt == ToPoints(Val(fs))
        wpt == ToPoints(Val(fw))
        policy == [self EXCEPT !.frameshift = fs, !.framewidth = fw,
                               !._framedPadded = fp, !._framedCentred = fc,
                               !._frameshiftPT = Some(spt),
                               !._framewidthPT = Some(wpt)]
        Stored(f) ==
          [self |-> IF f.raised = "range" THEN policy
                    ELSE [policy EXCEPT !._framedData = Some(f.m)],
           ok |-> f.raised = "no",
           val |-> IF f.raised = "no" THEN Some(f.m) ELSE None,
           computed |-> {"frame"},
           warned |-> NotInteger(Val(fs)) \/ NotInteger(Val(fw))]
    IN Only({Stored(f) : f \in {FrameData(self.data, spt, wpt, Val(fp), Val(fc))}})

\* ------------------------------------------------------ AudioFile.window
WindowTypesLax == {"blackman", "bartlett", "hamming", "hanning", "kaiser",
                   "rectangular", "trapazoid", "triangle"}
WindowTypes == {"blackman", "bartlett", "hamming", "hanning", "kaiser",
                "rectangular", "trapazoid"}
WindowNorms == {"none", "sum", "square sum"}

\* The coefficient vector is kept as the call that builds it: numpy's window
\* of that type and size, divided as the normalisation says.  np.kaiser(1, b)
\* is [1.] for every b.
WindowFunction(type, norm, beta, size) ==
  [type |-> type, norm |-> norm, size |-> size,
   beta |-> IF type = "kaiser" /\ size # 1 THEN beta ELSE None]

\* building the vector raises: np.kaiser without a beta, 4.0 / (1 - 1)
WindowFunctionRaises(type, beta, size) ==
  \/ type = "kaiser" /\ beta = None /\ size # 1
  \/ type = "trapazoid" /\ size = 1

\* A rational number p/q (q > 0) is the pair <<p, q>>.
\* The coefficients of the rectangular window, all equal: np.ones(size)
\* divided by nothing, by its sum or by the sum of its squares (lines 512-518)
RectangularCoefficient(norm, size) ==
  <<1, IF norm = "none" THEN 1 ELSE size>>

\* The coefficient at position k (from 0) of the trapazoid window before it is
\* normalised (lines 500-508); m1, m2 are Python 2 integer divisions and
\* slope is 4.0 / (size - 1), size > 1
TrapazoidCoefficient(k, size) ==
  LET m1 == size \div 4
      m2 == (size * 3) \div 4
  IN IF k < m1 THEN <<4 * k, size - 1>>
     ELSE IF k >= m2 THEN <<4 * (size - 1) - 4 * (k - m2), size - 1>>
     ELSE <<1, 1>>

\* self._framedData * self._windowFunction, a (rows x cols) by (1 x size)
\* product under numpy's broadcasting rules
ProductOk(framed, size) ==
  IF framed = None THEN size = 0
  ELSE Val(framed).cols = size \/ Val(framed).cols = 1 \/ size = 1

Product(framed, wf) ==
  IF framed = None
    THEN [cols |-> 0, nrows |-> 1, frames |-> None, win |-> wf]
    ELSE [cols |-> IF Val(framed).cols = 1 THEN wf.size ELSE Val(framed).cols,
          nrows |-> Len(Val(framed).rows),
          frames |-> framed, win |-> wf]

\* lines 477-484: the test that returns the stored windowed frames
WindowHit(self, windowType, windowNorm, kfs, kfw, kpad, kcen) ==
  /\ windowType = self.windowType /\ windowNorm = self.windowNorm
  /\ Some(Val(self._windowFunction).size) = self._framewidthPT
  /\ kfs = self.frameshift /\ kfw = self.framewidth
  /\ kpad = self._framedPadded /\ kcen = self._framedCentred

Raise(self, done) == [self |-> self, ok |-> FALSE, val |-> None, computed |-> done]

\* AudioFile.window.  The framing keywords default to the stored ones.
window(self, windowType, normalisation, kaiserBeta, frameshift, framewidth, pad, centred) ==
  LET kfs == IF frameshift = None THEN self.frameshift ELSE frameshift
      kfw == IF framewidth = None THEN self.framewidth ELSE framewidth
      kpad == IF pad = None THEN self._framedPadded ELSE pad
      kcen == IF centred = None THEN self._framedCentred ELSE centred
      wt == IF windowType = None THEN "blackman" ELSE Val(windowType)
      wn == IF normalisation = None THEN "square sum" ELSE Val(normalisation)
      kb == IF kaiserBeta = None THEN self.kaiserBeta ELSE kaiserBeta
      s1 == IF wt = "kaiser" THEN [self EXCEPT !.kaiserBeta = kb] ELSE self
  IN
  IF wt \notin WindowTypes \/ wn \notin WindowNorms THEN Raise(self, {})
  ELSE IF wt = "kaiser" /\ kb = None THEN Raise(self, {})
  ELSE IF Some(wt) = s1.windowType /\ Some(wn) = s1.windowNorm
          /\ s1._windowFunction = None
    THEN Raise(s1, {})
  ELSE IF WindowHit(s1, Some(wt), Some(wn), kfs, kfw, kpad, kcen)
    THEN [self |-> s1, ok |-> TRUE, val |-> s1._windowedData, computed |-> {}]
  ELSE
    LET Windowed(fr) ==
          LET s2 == [fr.self EXCEPT !.windowType = Some(wt), !.windowNorm = Some(wn)]
              size == Val(s2._framewidthPT)
              wf == WindowFunction(wt, wn, kaiserBeta, size)
              s3 == [s2 EXCEPT !._windowFunction = Some(wf)]
              done == fr.computed \cup {"window"}
          IN IF ~fr.ok THEN Raise(fr.self, fr.computed)
             ELSE IF WindowFunctionRaises(wt, kaiserBeta, size) THEN Raise(s2, done)
             ELSE IF ~ProductOk(s3._framedData, size) THEN Raise(s3, done)
             ELSE LET wd == Product(s3._framedData, wf)
                  IN [self |-> [s3 EXCEPT !._windowedData = Some(wd)],
                      ok |-> TRUE, val |-> Some(wd), computed |-> done]
    IN Only({Windowed(fr) : fr \in {frame(s1, kfs, kfw, kpad, kcen)}})

\* preemphasise() and unemphasise() of the audio source set and clear its
\* pre-emphasised flag
preemphasise(self) == [self EXCEPT !.preemphasised = TRUE]
unemphasise(self) == [self EXCEPT !.preemphasised = FALSE]

\* AudioFile.clear followed by a successful open of a file of n samples
Opened(n) ==
  [data |-> Samples(n), read |-> TRUE,
   frameshift |-> None, framewidth |-> None,
   windowType |-> None, windowNorm |-> None, kaiserBeta |-> None,
   _frameshiftPT |-> None, _framewidthPT |-> None, _framedData |-> None,
   _framedPadded |-> None, _framedCentred |-> None, _windowedData |-> None,
   _windowFunction |-> None, preemphasised |-> FALSE]

\* ------------------------------------------------------- algorithms.mfcc
\* np.round, half to even, of the quotient a / b of naturals (b > 0)
Round(a, b) ==
  LET q == a \div b
      r == a % b
  IN IF 2 * r < b THEN q
     ELSE IF 2 * r > b THEN q + 1
     ELSE IF q % 2 = 0 THEN q ELSE q + 1

\* powerSpectrum keeps FFT(...)[:, fftLen/2:]; filterBank is zeros((order, fftLen/2))
SpectrumBins(fftLen) == fftLen - fftLen \div 2
BankBins(fftLen) == fftLen \div 2

\* The centre bins rise from the bin of low to the bin of high; every slice
\* filterBank assigns lies inside the bank when the last one does.
FilterBankFits(low, high, fftLen) ==
  /\ low <= high
  /\ Round(fftLen * high, Rate) <= BankBins(fftLen)

\* np.linspace(0, 1.0, d + 1)[1:] and np.linspace(1.0, 0.0, e + 1)[:-1]
Rise(d) == [j \in 1..d |-> <<j, d>>]
Fall(e) == [j \in 1..e |-> <<e - j + 1, e>>]

\* bank[o, a:b] = src on a row of the bank: [ok, row]
BankAssign(row, a, b, src) ==
  LET lo == Min(a, Len(row))
      n == Max(Min(b, Len(row)) - lo, 0)
  IN [ok |-> AssignOk(n, src), row |-> Assign(row, lo, n, src)]

\* lines 64-66: filter o of the bank over bins columns, from its three centres
FilterRow(c0, c1, c2, bins) ==
  LET Falling(up) ==
        IF ~up.ok THEN up ELSE BankAssign(up.row, c1, c2, Fall(c2 - c1))
  IN Only({Falling(up) : up \in
             {BankAssign([j \in 1..bins |-> <<0, 1>>], c0, c1, Rise(c1 - c0))}})

\* filterBank from the rounded centre points on: [ok, rows]
filterBank(centrePoints, bins) ==
  LET order == Len(centrePoints) - 2
      Bank(rows) == [ok |-> \A o \in 1..order : rows[o].ok,
                     rows |-> [o \in 1..order |-> rows[o].row]]
  IN Only({Bank(rows) : rows \in
             {[o \in 1..order |->
                 FilterRow(centrePoints[o], centrePoints[o + 1],
                           centrePoints[o + 2], bins)] \o <<>>}})

\* mfcc(framewiseData, order, samplerate, fftLen, low, high): [ok, val].
\* The coefficients are kept as the call that computes them, with the shape
\* DCT(log(dot(spectrum, filters))) has.
algorithms_mfcc(framewiseData, order, fftLen, low, high) ==
  LET hi == IF high = None THEN Rate \div 2 ELSE Val(high)
      ok == /\ low # None
            /\ framewiseData # None
            /\ fftLen >= 1
            /\ order >= 1
            /\ FilterBankFits(Val(low), hi, fftLen)
            /\ SpectrumBins(fftLen) = BankBins(fftLen)
  IN [ok |-> ok,
      val |-> IF ok
                THEN Some([nrows |-> Val(framewiseData).nrows, cols |-> order,
                           data |-> Val(framewiseData), order |-> order,
                           fftLen |-> fftLen, low |-> Val(low), high |-> hi])
                ELSE None]

\* -------------------------------------------------------- SpeechFeatures
\* SpeechFeatures.clear
Cleared ==
  [attached |-> FALSE, mfccOrder |-> None, _energy |-> None,
   _logEnergy |-> None, _mfcc |-> None, _fftLen |-> None,
   _mfccLowBand |-> None, _mfccHighBand |-> None]

ResolveOrderStored(self, order) ==
  IF self.mfccOrder # None THEN Val(self.mfccOrder)
  ELSE IF order = None THEN 60 ELSE Val(order)

\* lines 141-147
ResolveOrder(self, order) ==
  IF order = None
    THEN (IF self.mfccOrder = None THEN 60 ELSE Val(self.mfccOrder))
    ELSE Val(order)

ResolveFftLenStored(self, fftLen, width) ==
  IF fftLen # None THEN Val(fftLen)
  ELSE IF self._fftLen = None THEN width ELSE Val(self._fftLen)

\* lines 149-152, given the columns of self._audiofile.window()
ResolveFftLen(self, fftLen, width) ==
  IF fftLen = None THEN width ELSE Val(fftLen)

\* lines 154-161 and 163-170
ResolveBand(arg, stored, default) ==
  IF arg = None
    THEN (IF stored = None THEN Some(default) ELSE stored)
    ELSE stored

\* lines 173-177
MfccStale(self, order, fftLen, lowBand, highBand) ==
  \/ self._mfcc = None
  \/ self.mfccOrder # Some(order)
  \/ Some(fftLen) # self._fftLen
  \/ lowBand # self._mfccLowBand
  \/ highBand # self._mfccHighBand

\* lines 179-189: the recomputation
MfccCompute(self, audio, order, fftLen, lowBand, highBand) ==
  LET res == [order |-> Some(order), fftLen |-> Some(fftLen),
              low |-> lowBand, high |-> highBand]
      Transformed(fr, emphasised, w) ==
        LET m == algorithms_mfcc(w.val, order, fftLen, lowBand, highBand)
            a2 == IF emphasised THEN unemphasise(w.self) ELSE w.self
        IN IF ~w.ok \/ ~m.ok
             THEN [sf |-> self, af |-> w.self, ok |-> FALSE, val |-> None,
                   computed |-> fr.computed \cup w.computed \cup
                                (IF w.ok THEN {"mfcc"} ELSE {}),
                   resolved |-> res]
           ELSE [sf |-> [self EXCEPT !._mfcc = m.val,
                                     !.mfccOrder = Some(Val(m.val).cols),
                                     !._fftLen = Some(fftLen)],
                 af |-> a2, ok |-> TRUE, val |-> m.val,
                 computed |-> fr.computed \cup w.computed \cup {"mfcc"},
                 resolved |-> res]
      AfterFrame(fr) ==
        LET emphasised == ~fr.self.preemphasised
            a1 == IF emphasised THEN preemphasise(fr.self) ELSE fr.self
        IN IF ~fr.ok
             THEN [sf |-> self, af |-> fr.self, ok |-> FALSE, val |-> None,
                   computed |-> fr.computed, resolved |-> res]
           ELSE Only({Transformed(fr, emphasised, w) : w \in
                        {window(a1, None, None, None, None, None, None, None)}})
  IN Only({AfterFrame(fr) : fr \in {frame(audio, None, None, None, None)}})

\* SpeechFeatures.mfcc
mfcc(self, audio, order, fftLen, lowBand, highBand) ==
  LET o == ResolveOrder(self, order)
      lo == ResolveBand(lowBand, self._mfccLowBand, 0)
      hi == ResolveBand(highBand, self._mfccHighBand, Rate \div 2)
      Resolved(w) ==
        LET f == ResolveFftLen(self, fftLen, IF fftLen = None THEN Val(w.val).cols ELSE 0)
        IN IF fftLen = None /\ (~w.ok \/ w.val = None)
             THEN [sf |-> self, af |-> w.self, ok |-> FALSE, val |-> None,
                   computed |-> w.computed, resolved |-> None]
           ELSE IF MfccStale(self, o, f, lo, hi)
             THEN Only({[c EXCEPT !.computed = w.computed \cup c.computed] : c \in
                          {MfccCompute(self, w.self, o, f, lo, hi)}})
           ELSE [sf |-> self, af |-> w.self, ok |-> TRUE, val |-> self._mfcc,
                 computed |-> w.computed,
                 resolved |-> [order |-> Some(o), fftLen |-> Some(f),
                               low |-> lo, high |-> hi]]
  IN IF ~self.attached
       THEN [sf |-> self, af |-> audio, ok |-> FALSE, val |-> None,
             computed |-> {}, resolved |-> None]
     ELSE Only({Resolved(w) : w \in
                  {IF fftLen = None
                     THEN window(audio, None, None, None, None, None, None, None)
                     ELSE [self |-> audio, ok |-> TRUE, val |-> None, computed |-> {}]}})

\* SpeechFeatures.setAudio.  audioFile is "read" (the AudioFile, read),
\* "unread" (an AudioFile that was not read) or "other" (not an AudioFile).
setAudioKeeps(self, audioFile) ==
  [self |-> [self EXCEPT !.attached = audioFile = "read"], ok |-> audioFile = "read"]

setAudio(self, audioFile) ==
  [self |-> [Cleared EXCEPT !.attached = audioFile = "read"], ok |-> audioFile = "read"]

\* algorithms.energy: the energies, one per row, are kept as the matrix they
\* are the row sums of squares of
algorithms_energy(framedData) ==
  [ok |-> framedData # None,
   eng |-> IF framedData = None THEN None
           ELSE Some([kind |-> "energy", n |-> Val(framedData).nrows,
                      data |-> Val(framedData)]),
   logEng |-> IF framedData = None THEN None
              ELSE Some([kind |-> "logEnergy", n |-> Val(framedData).nrows,
                         data |-> Val(framedData)])]

\* lines 97-98 and 102-103: fill both stores when one is empty
Energies(self, audio) ==
  LET Filled(w) ==
        LET e == algorithms_energy(w.val)
        IN IF ~w.ok \/ ~e.ok
             THEN [sf |-> self, af |-> w.self, ok |-> FALSE, computed |-> w.computed]
           ELSE [sf |-> [self EXCEPT !._energy = e.eng, !._logEnergy = e.logEng],
                 af |-> w.self, ok |-> TRUE,
                 computed |-> w.computed \cup {"energy"}]
  IN IF self._energy = None \/ self._logEnergy = None
       THEN IF ~self.attached
              THEN [sf |-> self, af |-> audio, ok |-> FALSE, computed |-> {}]
            ELSE Only({Filled(w) : w \in
                         {window(audio, None, None, None, None, None, None, None)}})
     ELSE [sf |-> self, af |-> audio, ok |-> TRUE, computed |-> {}]

\* SpeechFeatures.energy and SpeechFeatures.logEnergy
energy(self, audio) ==
  Only({[val |-> IF r.ok THEN r.sf._energy ELSE None] @@ r : r \in {Energies(self, audio)}})

logEnergy(self, audio) ==
  Only({[val |-> IF r.ok THEN r.sf._logEnergy ELSE None] @@ r : r \in {Energies(self, audio)}})

\* ------------------------------------------------------------ the machine
\* af: the AudioFile; sf: the SpeechFeatures holding it; last: the call just
\* made (with what is recorded of the state and of the call before it); ret: what it
\* returned; computed: the computations it ran; resolved: the parameters
\* SpeechFeatures.mfcc settled on.
Call(op, args, ok, pre) == [op |-> op, args |-> args, ok |-> ok, pre |-> pre]

\* again: the call repeats the successful call made just before it;
\* same: it returns what that call returned
Repeat(op, args, val) ==
  [again |-> last.op = op /\ last.ok /\ last.args = args, same |-> val = ret]

Init ==
  /\ af = Opened(NSamples)
  /\ sf = setAudio(Cleared, "read").self
  /\ last = Call("init", <<>>, TRUE, None)
  /\ ret = None
  /\ computed = {}
  /\ resolved = None

\* clean: every frame() and window() call made so far returned
Clean(ok) ==
  /\ ok
  /\ \/ last.op = "init"
     \/ last.op \in {"frame", "window"} /\ last.pre.clean

Frame(frameshift, framewidth, pad, centred) ==
  \E r \in {frame(af, frameshift, framewidth, pad, centred)} :
     /\ af' = r.self
     /\ last' = Call("frame", <<frameshift, framewidth, pad, centred>>, r.ok,
                     [clean |-> Clean(r.ok), warned |-> r.warned] @@
                     Repeat("frame", <<frameshift, framewidth, pad, centred>>, r.val))
     /\ ret' = r.val
     /\ computed' = r.computed
     /\ resolved' = None
     /\ UNCHANGED sf

Mfcc(order, fftLen, lowBand, highBand) ==
  \E r \in {mfcc(sf, af, order, fftLen, lowBand, highBand)} :
     /\ af' = r.af
     /\ sf' = r.sf
     /\ last' = Call("mfcc", <<order, fftLen, lowBand, highBand>>, r.ok,
                     [order |-> sf.mfccOrder, fftLen |-> sf._fftLen,
                      fresh |-> last.op = "setAudio"] @@
                     Repeat("mfcc", <<order, fftLen, lowBand, highBand>>, r.val))
     /\ ret' = r.val
     /\ computed' = r.computed
     /\ resolved' = r.resolved

\* AudioFile.window(windowType, normalisation, kaiserBeta,
\*                  framewidth = framewidth, centred = centred)
Window(windowType, normalisation, kaiserBeta, framewidth, centred) ==
  \E r \in {window(af, windowType, normalisation, kaiserBeta,
                   None, framewidth, None, centred)} :
     /\ af' = r.self
     /\ last' = Call("window",
                     <<windowType, normalisation, kaiserBeta, framewidth, centred>>,
                     r.ok,
                     [clean |-> Clean(r.ok),
                      type |-> af.windowType, norm |-> af.windowNorm,
                      data |-> af._windowedData,
                      after |-> last.op = "window" /\ last.ok
                                  /\ last.args[1] # None /\ last.args[2] # None])
     /\ ret' = r.val
     /\ computed' = r.computed
     /\ resolved' = None
     /\ UNCHANGED sf

\* filterBank with given centre points and bank width
FilterBank(centrePoints, bins) ==
  \E r \in {filterBank(centrePoints, bins)} :
     /\ last' = Call("filterBank", <<centrePoints, bins>>, r.ok, None)
     /\ ret' = IF r.ok THEN Some(r.rows) ELSE None
     /\ computed' = {"filterBank"}
     /\ resolved' = None
     /\ UNCHANGED <<af, sf>>

SetAudio(audioFile) ==
  \E r \in {setAudio(sf, audioFile)} :
     /\ sf' = r.self
     /\ last' = Call("setAudio", <<audioFile>>, r.ok,
                     [mfcc |-> sf._mfcc # None, energy |-> sf._energy # None])
     /\ ret' = None
     /\ computed' = {}
     /\ resolved' = None
     /\ UNCHANGED af

Energy ==
  \E r \in {energy(sf, af)} :
     /\ af' = r.af
     /\ sf' = r.sf
     /\ last' = Call("energy", <<>>, r.ok,
                     [fresh |-> last.op = "setAudio", prevOk |-> last.ok])
     /\ ret' = r.val
     /\ computed' = r.computed
     /\ resolved' = None

LogEnergy ==
  \E r \in {logEnergy(sf, af)} :
     /\ af' = r.af
     /\ sf' = r.sf
     /\ last' = Call("logEnergy", <<>>, r.ok,
                     [fresh |-> last.op = "setAudio", prevOk |-> last.ok])
     /\ ret' = r.val
     /\ computed' = r.computed
     /\ resolved' = None

Preemphasise ==
  /\ af' = preemphasise(af)
  /\ last' = Call("preemphasise", <<>>, TRUE, None)
  /\ ret' = None
  /\ computed' = {}
  /\ resolved' = None
  /\ UNCHANGED sf

Unemphasise ==
  /\ af' = unemphasise(af)
  /\ last' = Call("unemphasise", <<>>, TRUE, None)
  /\ ret' = None
  /\ computed' = {}
  /\ resolved' = None
  /\ UNCHANGED sf

Opt(S) == {None} \cup {Some(v) : v \in S}

\* a whole number of samples, in ticks
Points(S) == {n * TicksPerSample : n \in S}

\* SpeechFeatures over one AudioFile: the arguments of mfcc are one of two orders,
\* an odd or an even FFT length and a band edge in Hz; the caller may change the
\* width of the frames and whether they are padded
OrderArgs == Opt((MaxOrder - 1)..MaxOrder)
FftLenArgs == Opt((MaxFftLen - 1)..MaxFftLen)
BandArgs == Opt({MaxBand})

Reframe ==
  \E w \in Points((MaxReframePT - 1)..MaxReframePT), pad \in Opt(BOOLEAN) :
    Frame(None, Some(w), pad, None)

CallMfcc ==
  \E order \in OrderArgs, fftLen \in FftLenArgs, lowBand \in BandArgs,
     highBand \in BandArgs :
    Mfcc(order, fftLen, lowBand, highBand)

Reattach == SetAudio("read")

Next == CallMfcc \/ Reframe \/ Reattach \/ Preemphasise \/ Unemphasise

Spec == Init /\ [][Next]_vars

\* The features of one AudioFile: energies and MFCCs of some order, between
\* changes of the frames and attachments of a read AudioFile, of an unread
\* one and of something else
CallSetAudio == \E audioFile \in {"read", "unread", "other"} : SetAudio(audioFile)

PlainMfcc == \E order \in OrderArgs : Mfcc(order, None, None, None)

SpecFeatures ==
  Init /\ [][Energy \/ LogEnergy \/ PlainMfcc \/ Reframe \/ CallSetAudio]_vars

\* AudioFile.frame with every combination of set and unset arguments
CallFrame ==
  \E frameshift \in Opt(Points(1..MaxShiftPT)),
     framewidth \in Opt(Points((MaxWidthPT - 1)..MaxWidthPT)),
     pad \in Opt(BOOLEAN), centred \in Opt(BOOLEAN) :
    Frame(frameshift, framewidth, pad, centred)

SpecFrame == Init /\ [][CallFrame]_vars

\* frame() with a shift and a width that need not be whole samples
CallSeconds ==
  \E frameshift \in 1..(MaxShiftPT * TicksPerSample),
     framewidth \in ((MaxWidthPT - 1) * TicksPerSample)..(MaxWidthPT * TicksPerSample),
     pad \in BOOLEAN :
    Frame(Some(frameshift), Some(framewidth), Some(pad), Some(FALSE))

SpecSeconds == Init /\ [][CallSeconds]_vars

\* AudioFile.window between changes of the frame shift: a known, an unknown
\* or no window type and normalisation, with or without a beta; and windows
\* of a few samples
TypeArgs == Opt({"rectangular", "kaiser", "triangle"})
NormArgs == Opt({"sum", "bogus"})
BetaArgs == Opt((MaxBeta - 1)..MaxBeta)

CallWindow ==
  \E windowType \in TypeArgs, normalisation \in NormArgs, kaiserBeta \in BetaArgs :
    Window(windowType, normalisation, kaiserBeta, None, None)

NarrowWindow ==
  \E normalisation \in Opt({"sum", "none"}),
     w \in Points((MaxWindowPT - 1)..MaxWindowPT) :
    Window(Some("rectangular"), normalisation, None, Some(w), Some(FALSE))

Reshift ==
  \E s \in Points((MaxShiftPT - 1)..MaxShiftPT) : Frame(Some(s), None, None, None)

SpecWindow == Init /\ [][CallWindow \/ NarrowWindow \/ Reshift]_vars

\* window('trapazoid') over frames of 1 to MaxTrapPT samples
CallTrapazoid ==
  \E normalisation \in Opt({"none", "sum"}), w \in Points(1..MaxTrapPT) :
    Window(Some("trapazoid"), normalisation, None, Some(w), Some(FALSE))

SpecTrapazoid == Init /\ [][CallTrapazoid]_vars

\* filterBank for every non-decreasing sequence of centre bins in the bank
\* or at its end
CentrePoints ==
  {c \in UNION {[1..(order + 2) -> 0..MaxBin] : order \in 1..MaxBankOrder} :
     \A i \in 1..(Len(c) - 1) : c[i] <= c[i + 1]}

CallFilterBank == \E c \in CentrePoints : FilterBank(c, MaxBin)

SpecBank == Init /\ [][CallFilterBank]_vars

\* the framing of files of every length, with the policy given in samples
InitFraming ==
  /\ \E n \in 1..MaxN : af = Opened(n)
  /\ sf = Cleared
  /\ last = Call("init", <<>>, TRUE, None)
  /\ ret = None
  /\ computed = {}
  /\ resolved = None

FramePoints ==
  \E shift \in Points(1..MaxShiftPT), width \in Points(0..MaxWidthPT),
     pad \in BOOLEAN, centred \in BOOLEAN :
    Frame(Some(shift), Some(width), Some(pad), Some(centred))

SpecFraming == InitFraming /\ [][FramePoints]_vars

\* ------------------------------------------------------------------ claims
\* what the last frame() call left in the AudioFile
N == Len(af.data)
S == Val(af._frameshiftPT)
W == Val(af._framewidthPT)
Rows == Val(af._framedData).rows
Framed(pad, centred) ==
  /\ last.op = "frame"
  /\ af._framedPadded = Some(pad)
  /\ pad => af._framedCentred = Some(centred)

\* C1 (as claimed): every mfcc call leaves the pre-emphasised flag of the
\* audio source as it found it, whether it returns or raises.
C1_FlagRestored ==
  [][last'.op = "mfcc" => af'.preemphasised = af.preemphasised]_vars

\* C2 (as claimed): an mfcc call with the arguments of the successful mfcc
\* call just before it returns the stored matrix and does not run the MFCC
\* computation.
C2_RepeatIsCached ==
  (last.op = "mfcc" /\ last.pre.again) =>
    (last.ok /\ "mfcc" \notin computed /\ last.pre.same)

\* C3 (as claimed): a band edge given to mfcc is the one handed to the filter
\* bank, and a given edge that differs from the one the stored MFCCs were
\* computed with makes mfcc compute again.
C3_BandsHonoured ==
  [][(last'.op = "mfcc" /\ resolved' # None) =>
       LET lowBand == last'.args[3]
           highBand == last'.args[4]
       IN /\ ("mfcc" \in computed' /\ lowBand # None) => resolved'.low = lowBand
          /\ ("mfcc" \in computed' /\ highBand # None) => resolved'.high = highBand
          /\ (sf._mfcc # None /\ lowBand # None /\ Val(lowBand) # Val(sf._mfcc).low)
               => "mfcc" \in computed'
          /\ (sf._mfcc # None /\ highBand # None /\ Val(highBand) # Val(sf._mfcc).high)
               => "mfcc" \in computed']_vars

\* C4: after a successful mfcc of order k1, the call mfcc(order = k2) with
\* k2 # k1, made while the FFT length it settles on is the one of that
\* computation, computes again, returns k2 columns and as many rows as the
\* windowed frames have, and records mfccOrder = k2.
C4_Case ==
  /\ last.op = "mfcc"
  /\ last.args[1] # None /\ last.args[2] = None
  /\ last.args[3] = None /\ last.args[4] = None
  /\ last.pre.order # None /\ last.pre.order # last.args[1]
  /\ resolved # None /\ resolved.fftLen = last.pre.fftLen

C4_OrderChange ==
  C4_Case =>
    /\ last.ok /\ "mfcc" \in computed
    /\ ret = sf._mfcc
    /\ Val(ret).cols = Val(last.args[1])
    /\ Val(ret).nrows = Val(af._windowedData).nrows
    /\ sf.mfccOrder = last.args[1]

C4_Witness == C4_Case /\ last.ok /\ Val(ret).nrows > 1

\* C5 (as claimed): with fftLen omitted, mfcc uses the FFT length of the
\* previous computation when there was one.
C5_FftLenPrevious ==
  (last.op = "mfcc" /\ last.args[2] = None /\ resolved # None
     /\ last.pre.fftLen # None)
    => resolved.fftLen = last.pre.fftLen

\* C5 (amended): an omitted order resolves to the order of the previous
\* computation, or to 60 when there was none; an omitted fftLen resolves to
\* the current frame width in samples, whatever was computed before; an
\* omitted lowBand resolves to 0 and an omitted highBand to sampleRate/2,
\* which are the edges every stored computation used.
C5_Defaults ==
  (last.op = "mfcc" /\ resolved # None) =>
    /\ last.args[1] = None =>
         resolved.order = IF last.pre.order = None THEN Some(60) ELSE last.pre.order
    /\ last.args[2] = None => resolved.fftLen = af._framewidthPT
    /\ last.args[3] = None => resolved.low = Some(0)
    /\ last.args[4] = None => resolved.high = Some(Rate \div 2)
    /\ sf._mfcc # None =>
         Val(sf._mfcc).low = 0 /\ Val(sf._mfcc).high = Rate \div 2

C5_Witness ==
  /\ last.op = "mfcc" /\ last.ok /\ "mfcc" \in computed
  /\ last.args = <<None, None, None, None>>
  /\ last.pre.order # None /\ last.pre.order # Some(60)
  /\ last.pre.fftLen # None /\ last.pre.fftLen # resolved.fftLen

\* C6 (as claimed): a frame() call with the arguments of the successful
\* frame() call just before it returns the stored matrix and does not frame
\* again.
C6_RepeatIsCached ==
  (last.op = "frame" /\ last.pre.again) =>
    (last.ok /\ computed = {} /\ last.pre.same)

\* C7 (as claimed): a frame() call that gives a shift, width, pad or centred
\* differing from the policy of the stored frames frames again, also when it
\* gives only pad or only centred.
C7_OverrideReframes ==
  [][(last'.op = "frame" /\ af._framedData # None /\
      LET a == last'.args
      IN \/ a[1] # None /\ a[1] # af.frameshift
         \/ a[2] # None /\ a[2] # af.framewidth
         \/ a[3] # None /\ a[3] # af._framedPadded
         \/ a[4] # None /\ a[4] # af._framedCentred
              /\ af._framedPadded = Some(TRUE) /\ a[3] # Some(FALSE))
       => "frame" \in computed']_vars

\* C8 (as claimed): unpadded framing of N >= W samples (W >= 1) gives
\* floor((N - W)/S) + 1 rows, row i being the samples [i*S, i*S + W).
C8_UnpaddedRows ==
  (Framed(FALSE, FALSE) /\ last.ok /\ N >= W /\ W >= 1) =>
    /\ Len(Rows) = (N - W) \div S + 1
    /\ \A i \in 1..Len(Rows) : Rows[i] = Slice(af.data, (i - 1) * S, (i - 1) * S + W)

\* C9: padded, not centred framing gives one row per start 0, S, 2S, ... < N;
\* the row of start s holds the samples s, s+1, ... in its first
\* min(W, N - s) places and zero in the others.
C9_PaddedRows ==
  Framed(TRUE, FALSE) =>
    /\ last.ok /\ ret = af._framedData
    /\ Len(Rows) = (N + S - 1) \div S
    /\ \A i \in 1..Len(Rows) :
         LET s == (i - 1) * S IN
         /\ Len(Rows[i]) = W
         /\ \A j \in 1..W :
              Rows[i][j] = IF j <= Min(W, N - s) THEN af.data[s + j] ELSE 0

C9_Witness ==
  /\ Framed(TRUE, FALSE) /\ last.ok /\ "frame" \in computed
  /\ Len(Rows) >= 2 /\ W >= 2
  /\ (Len(Rows) - 1) * S + W > N

\* C10 (as claimed): padded, centred framing succeeds for every N, W >= 1 and
\* S >= 1, and column j of the row of start s holds sample s - floor(W/2) + j
\* when that is a sample and j < 2*floor(W/2), and zero otherwise.
C10_CentredRows ==
  (Framed(TRUE, TRUE) /\ W >= 1) =>
    /\ last.ok
    /\ Len(Rows) = (N + S - 1) \div S
    /\ \A i \in 1..Len(Rows) : \A j \in 0..(W - 1) :
         LET k == (i - 1) * S - W \div 2 + j IN
         Rows[i][j + 1] = IF k >= 0 /\ k < N /\ j < 2 * (W \div 2)
                            THEN af.data[k + 1] ELSE 0

\* C11 (as claimed): after frame() and window() calls that all returned, the
\* matrix window() returns is the product of the matrix frame() now returns
\* with the window vector, with the rows and columns of that matrix.
C11_WindowFollowsFrame ==
  (last.op = "window" /\ last.pre.clean) =>
    /\ ret # None /\ af._framedData # None
    /\ Val(ret).frames = af._framedData
    /\ Val(ret).nrows = Len(Val(af._framedData).rows)
    /\ Val(ret).cols = Val(af._framedData).cols

\* the window type, the normalisation and the beta a window() call asks for
AskedType == IF last.args[1] = None THEN "blackman" ELSE Val(last.args[1])
AskedNorm == IF last.args[2] = None THEN "square sum" ELSE Val(last.args[2])

\* C12 (as claimed): the matrix a window() call returns was computed with the
\* window type and the normalisation the call asks for and, for a kaiser
\* window of more than one sample, with the beta it gives.
C12_CacheKeyedByBeta ==
  (last.op = "window" /\ last.ok) =>
    /\ Val(ret).win.type = AskedType
    /\ Val(ret).win.norm = AskedNorm
    /\ (AskedType = "kaiser" /\ last.args[3] # None /\ Val(ret).win.size # 1)
         => Val(ret).win.beta = last.args[3]

\* C13 (as claimed): window() with no window type, normalisation or framing
\* argument, made right after a window(type, norm) call that returned, returns
\* the stored windowed data and leaves windowType and windowNorm as they were.
C13_OmittedReusesType ==
  (last.op = "window" /\ last.pre.after
     /\ last.args[1] = None /\ last.args[2] = None
     /\ last.args[4] = None /\ last.args[5] = None) =>
    /\ last.ok
    /\ af.windowType = last.pre.type /\ af.windowNorm = last.pre.norm
    /\ ret = last.pre.data

\* C14: a window() call with an unknown window type or an unknown
\* normalisation raises and leaves the AudioFile (windowType, windowNorm,
\* kaiserBeta, window vector, windowed matrix, framing) as it was.
C14_UnknownLeavesState ==
  [][(last'.op = "window"
        /\ \/ last'.args[1] = Some("triangle")
           \/ last'.args[2] = Some("bogus"))
       => (~last'.ok /\ af' = af /\ ret' = None /\ computed' = {})]_vars

C14_Witness ==
  /\ last.op = "window" /\ ~last.ok
  /\ last.args[1] = Some("kaiser") /\ last.args[2] = Some("bogus")
  /\ last.args[3] # None /\ last.args[3] # af.kaiserBeta
  /\ af._windowedData # None /\ af.windowType = Some("rectangular")

\* C15 (as claimed): what energy() and logEnergy() return, after a call that
\* returned, is computed from the windowed frames window() returns now: it
\* has one entry per row of that matrix and is the energy of that matrix.
C15_EnergyFollowsWindow ==
  (last.op \in {"energy", "logEnergy"} /\ last.ok /\ last.pre.prevOk) =>
    LET w == window(af, None, None, None, None, None, None, None)
    IN w.ok =>
         /\ Val(ret).n = Val(w.val).nrows
         /\ Val(ret).data = Val(w.val)

\* C16: after setAudio the stores of energy, logEnergy and mfcc and their
\* provenance are empty; the source is attached exactly when setAudio was
\* given a read AudioFile, and otherwise setAudio raised; the feature call
\* made next computes from the attached source or raises.
C16_SetAudioEmpties ==
  /\ last.op = "setAudio" =>
       /\ sf._energy = None /\ sf._logEnergy = None /\ sf._mfcc = None
       /\ sf.mfccOrder = None /\ sf._fftLen = None
       /\ sf._mfccLowBand = None /\ sf._mfccHighBand = None
       /\ last.ok = (last.args = <<"read">>)
       /\ sf.attached = last.ok
  /\ (last.op \in {"energy", "logEnergy", "mfcc"} /\ last.pre.fresh) =>
       IF sf.attached
         THEN last.ok => (IF last.op = "mfcc" THEN "mfcc" ELSE "energy") \in computed
         ELSE ~last.ok

C16_Witness ==
  /\ last.op = "setAudio" /\ ~last.ok
  /\ last.pre.mfcc /\ last.pre.energy

\* C17 (as claimed): frame() with a shift or a width of zero samples or
\* fewer raises, whatever pad and centred are.
C17_NonPositiveRejected ==
  (last.op = "frame" /\ af._framewidthPT # None /\ (S <= 0 \/ W <= 0)) =>
    (~last.ok /\ ret = None)

\* sum and sum of squares of the coefficients of a rectangular window
CoefficientSum(norm, size) ==
  LET c == RectangularCoefficient(norm, size) IN <<size * c[1], c[2]>>
CoefficientSquareSum(norm, size) ==
  LET c == RectangularCoefficient(norm, size) IN <<size * c[1] * c[1], c[2] * c[2]>>

\* C18 (as claimed): a rectangular window vector of W >= 1 coefficients
\* normalised with 'sum' has coefficients that sum to 1, and with
\* 'square sum' coefficients whose squares sum to 1.
C18_UnitCondition ==
  (af._windowFunction # None
     /\ Val(af._windowFunction).type = "rectangular"
     /\ Val(af._windowFunction).size >= 1) =>
    LET wf == Val(af._windowFunction)
        sum == CoefficientSum(wf.norm, wf.size)
        squares == CoefficientSquareSum(wf.norm, wf.size)
    IN /\ wf.norm = "sum" => sum[1] = sum[2]
       /\ wf.norm = "square sum" => squares[1] = squares[2]

\* C19 (as claimed): for every FFT length mfcc settles on, the power spectrum
\* and the filter bank both have floor(fftLen/2) + 1 bins, and the projection
\* of the one through the other is computed.
C19_BinsAgree ==
  (last.op = "mfcc" /\ "mfcc" \in computed /\ last.args[3] = None) =>
    LET fftLen == Val(resolved.fftLen)
    IN /\ SpectrumBins(fftLen) = fftLen \div 2 + 1
       /\ BankBins(fftLen) = fftLen \div 2 + 1
       /\ last.ok

\* comparisons of rationals
IsZero(x) == x[1] = 0
IsOne(x) == x[1] = x[2]
Leq(x, y) == x[1] * y[2] <= y[1] * x[2]

\* C20 (as claimed): filterBank returns for every non-decreasing sequence of
\* centre bins; filter k is 0 outside (c[k], c[k+2]), that is at every bin
\* before c[k] or after c[k+2] and at the edges c[k] and c[k+2] that are not
\* the centre; it is 1 at the bin c[k+1] when the band is not of zero width,
\* rises to it and falls from it; a band of zero width is all zero.
C20_Triangles ==
  last.op = "filterBank" =>
    /\ last.ok
    /\ LET c == last.args[1]
           bins == last.args[2]
           bank == Val(ret)
       IN \A k \in 1..(Len(c) - 2) :
            LET At(b) == bank[k][b + 1]
            IN /\ \A b \in 0..(bins - 1) :
                    (\/ b < c[k] \/ b > c[k + 2]
                     \/ b = c[k] /\ c[k] < c[k + 1]
                     \/ b = c[k + 2] /\ c[k + 1] < c[k + 2]
                     \/ c[k] = c[k + 2]) => IsZero(At(b))
               /\ (c[k] < c[k + 2] /\ c[k + 1] < bins) => IsOne(At(c[k + 1]))
               /\ \A b \in 0..(bins - 2) :
                    /\ (c[k] <= b /\ b + 1 <= c[k + 1]) => Leq(At(b), At(b + 1))
                    /\ (c[k + 1] <= b /\ b + 1 <= c[k + 2]) => Leq(At(b + 1), At(b))

\* the shift and the width of the recorded framing policy, in ticks
ShiftT == Val(af.frameshift)
WidthT == Val(af.framewidth)

\* C21 (as claimed): after a frame() call that frames, the shift and the
\* width in samples are nearest integers to shift*rate and width*rate, and a
\* product that is not integral does not make the call fail: with a shift and
\* a width that round to one sample or more the padded call returns.
C21_Rounded ==
  (last.op = "frame" /\ "frame" \in computed) =>
    /\ 2 * (ShiftT - S * TicksPerSample) <= TicksPerSample
    /\ 2 * (S * TicksPerSample - ShiftT) <= TicksPerSample
    /\ 2 * (WidthT - W * TicksPerSample) <= TicksPerSample
    /\ 2 * (W * TicksPerSample - WidthT) <= TicksPerSample
    /\ (last.pre.warned /\ 2 * ShiftT >= TicksPerSample /\ last.args[3] = Some(TRUE))
         => last.ok

\* C22 (as claimed): the trapazoid window of W >= 4 coefficients that
\* window() builds without normalisation starts at 0, does not fall over the
\* first quarter, is 1 over the middle half and does not rise over the last
\* quarter; every coefficient lies in [0, 1] and the coefficient at position
\* k equals the one at position W-1-k.
C22_Trapezoid ==
  (/\ last.op = "window" /\ last.ok /\ "window" \in computed
   /\ Val(af._windowFunction).type = "trapazoid"
   /\ Val(af._windowFunction).norm = "none"
   /\ Val(af._windowFunction).size >= 4) =>
    LET size == Val(af._windowFunction).size
        At(k) == TrapazoidCoefficient(k, size)
    IN /\ IsZero(At(0))
       /\ \A k \in 0..(size - 1) :
            /\ Leq(<<0, 1>>, At(k)) /\ Leq(At(k), <<1, 1>>)
            /\ Leq(At(k), At(size - 1 - k)) /\ Leq(At(size - 1 - k), At(k))
            /\ (size <= 4 * k /\ 4 * k + 4 <= 3 * size) => IsOne(At(k))
       /\ \A k \in 0..(size - 2) :
            /\ 4 * (k + 1) <= size => Leq(At(k), At(k + 1))
            /\ 3 * size <= 4 * k => Leq(At(k + 1), At(k))

\* the recorded framing policy and window parameters
Recorded ==
  <<af.frameshift, af.framewidth, af._framedPadded, af._framedCentred,
    af._frameshiftPT, af._framewidthPT,
    af.windowType, af.windowNorm, af.kaiserBeta>>

\* the stored framed matrix is what framing the data under the recorded policy
\* gives, without raising
FramedAsRecorded ==
  af._framedData # None =>
    \E f \in {FrameData(af.data, S, W, Val(af._framedPadded), Val(af._framedCentred))} :
      f.raised = "no" /\ af._framedData = Some(f.m)

\* the stored windowed matrix is the stored framed matrix times the window of
\* the recorded type, normalisation and beta
WindowedAsRecorded ==
  af._windowedData # None =>
    /\ ~WindowFunctionRaises(Val(af.windowType), af.kaiserBeta, W)
    /\ af._windowedData =
         Some(Product(af._framedData,
                      WindowFunction(Val(af.windowType), Val(af.windowNorm),
                                     af.kaiserBeta, W)))

\* C23 (as claimed): after every frame() and window() call the stored framed
\* and windowed matrices are the ones the recorded framing policy and window
\* parameters produce, and a frame() or window() call that raises leaves the
\* recorded policy and parameters as they were.
C23_RaisesKeepRecorded ==
  [][/\ (last'.op \in {"frame", "window"} /\ ~last'.ok) => Recorded' = Recorded
     /\ last'.op \in {"frame", "window"} => (FramedAsRecorded' /\ WindowedAsRecorded')]_vars

====
